---- MODULE Spec2Model ----
(***************************************************************************)
(* The MIG agent's actuator (pkg/controllers/migagent/actuator.go): the     *)
(* Reconcile handler that, under a shared mutex, reads the node's           *)
(* annotations, computes a MIG configuration plan from the driver state,    *)
(* applies its delete and create operations through the driver and restarts *)
(* the NVIDIA device plugin.  The driver, the cluster store, the workloads  *)
(* and the daemonset controller are the environment.                        *)
(***************************************************************************)
EXTENDS Integers, Sequences, FiniteSets, TLC

(* ------------------------------ bounds --------------------------------- *)
\* Reconcile invocations the framework delivers, possibly at once
NumProcs == 2
\* device slots of the GPU the driver can hand out
MaxDev == 2
\* most devices the operations of one plan ask for between them, and the
\* largest count of a spec annotation
MaxQty == 2
\* most operations (deletes plus creates) in one plan
MaxOps == 2
\* most device-plugin pods a list call returns
MaxPods == 2

Procs == 1..NumProcs
DevIds == 1..MaxDev

(* ------------------------- profiles and hardware ----------------------- *)
\* MIG profiles of the A30 used by the repository's tests
Profiles == {"1g.6gb", "2g.12gb"}

\* ProfileName.getGiSlices: the number before "g" in the profile name
getGiSlices(profile) == IF profile = "1g.6gb" THEN 1 ELSE 2

\* compute slices of one A30
GpuSlices == 4

StatusFree == "free"
StatusUsed == "used"
NoDev == [profile |-> "none", status |-> "none"]
Devices == [profile : Profiles, status : {StatusFree, StatusUsed}]

RECURSIVE SumSlices(_, _)
SumSlices(h, ids) ==
    IF ids = {} THEN 0
    ELSE LET i == CHOOSE x \in ids : TRUE
         IN (IF h[i] = NoDev THEN 0 ELSE getGiSlices(h[i].profile))
            + SumSlices(h, ids \ {i})

UsedSlices(h) == SumSlices(h, DevIds)

\* mig.Client.GetMigDeviceResources: the devices that exist, in id order,
\* each with its profile and its status at the time of the read
Resources(h) ==
    LET all == [i \in DevIds |->
                  [id |-> i, profile |-> h[i].profile, status |-> h[i].status]]
    IN SelectSeq(all, LAMBDA r : r.status # "none")

\* plan.NewMigState: the state is the list of resources read from the driver
NewMigState(resources) == resources

CountOf(state, profile) ==
    Len(SelectSeq(state, LAMBDA r : r.profile = profile))

CountOfStatus(state, profile, status) ==
    Len(SelectSeq(state, LAMBDA r : r.profile = profile /\ r.status = status))

(* ------------------------------ annotations ---------------------------- *)
\* the spec annotations the node starts with: one profile wanted once, one
\* profile wanted MaxQty times and the other not at all, and the reverse
InitSpecs ==
    {[pr \in {"1g.6gb"} |-> 1],
     [pr \in Profiles |-> IF pr = "1g.6gb" THEN MaxQty ELSE 0],
     [pr \in Profiles |-> IF pr = "1g.6gb" THEN 0 ELSE 1]}

\* a status annotation set: (profile, status) -> count; 0 stands for no key
StatusSet == [Profiles -> [free : 0..MaxQty, used : 0..1]]

\* annotation.SpecMatchesStatus
SpecMatchesStatus(spec, status) ==
    /\ \A pr \in DOMAIN spec : status[pr].free + status[pr].used = spec[pr]
    /\ \A pr \in Profiles \ DOMAIN spec :
           status[pr].free = 0 /\ status[pr].used = 0

\* MigState.Matches
Matches(state, spec) ==
    \A pr \in DOMAIN spec : CountOf(state, pr) = spec[pr]

(* --------------------------------- plans ------------------------------- *)
EmptyPlan == [DeleteOperations |-> <<>>, CreateOperations |-> <<>>]

\* MigConfigPlan.IsEmpty
IsEmpty(plan) ==
    Len(plan.DeleteOperations) = 0 /\ Len(plan.CreateOperations) = 0

\* a delete operation carries the resources of its profile as they were read
DeleteOpsOf(state) ==
    {[MigProfile |-> pr,
      Resources |-> SelectSeq(state, LAMBDA r : r.profile = pr),
      Quantity |-> q] : pr \in Profiles, q \in 1..MaxQty}

\* a planned operation has a positive quantity
CreateOps == [MigProfile : Profiles, Quantity : 1..MaxQty]

SeqsUpTo(S, n) == UNION {[1..k -> S] : k \in 0..n}

RECURSIVE TotalQuantity(_)
TotalQuantity(ops) ==
    IF ops = <<>> THEN 0 ELSE Head(ops).Quantity + TotalQuantity(Tail(ops))

\* every plan over the state read of at most MaxOps operations that ask
\* for at most MaxQty devices between them
AnyPlans(state) ==
    LET all == UNION {{[DeleteOperations |-> d, CreateOperations |-> c] :
                         d \in [1..k -> DeleteOpsOf(state)],
                         c \in SeqsUpTo(CreateOps, MaxOps - k)} : k \in 0..MaxOps}
    IN {pl \in all : TotalQuantity(pl.DeleteOperations)
                        + TotalQuantity(pl.CreateOperations) <= MaxQty}

AscendingOrder == <<"1g.6gb", "2g.12gb">>

\* catalog order of the profiles: descending compute slices
ProfileOrder == <<"2g.12gb", "1g.6gb">>

Desired(spec, pr) == IF pr \in DOMAIN spec THEN spec[pr] ELSE 0

Uncapped(a, b) == a

Min(a, b) == IF a < b THEN a ELSE b

\* planner, delete side: per profile the surplus, capped at the free devices
PlanDeletes(state, spec) ==
    LET qty(pr) == Min(CountOf(state, pr) - Desired(spec, pr),
                       CountOfStatus(state, pr, StatusFree))
        op(pr) == [MigProfile |-> pr,
                   Resources |-> SelectSeq(state, LAMBDA r : r.profile = pr),
                   Quantity |-> qty(pr)]
        all == [k \in 1..Len(ProfileOrder) |-> op(ProfileOrder[k])]
    IN SelectSeq(all, LAMBDA o : o.Quantity > 0)

RECURSIVE OpsSlices(_)
OpsSlices(ops) ==
    IF ops = <<>> THEN 0
    ELSE getGiSlices(Head(ops).MigProfile) * Head(ops).Quantity
         + OpsSlices(Tail(ops))

RECURSIVE DropUntilFit(_, _)
DropUntilFit(ops, room) ==
    IF ops = <<>> \/ OpsSlices(ops) <= room THEN ops
    ELSE DropUntilFit(Tail(ops), room)

\* planner, create side: per profile the deficit, largest profile first,
\* creates dropped from the largest while they exceed the slices left
PlanCreates(state, spec) ==
    LET op(pr) == [MigProfile |-> pr,
                   Quantity |-> Desired(spec, pr) - CountOf(state, pr)]
        all == [k \in 1..Len(ProfileOrder) |-> op(ProfileOrder[k])]
        wanted == SelectSeq(all, LAMBDA o : o.Quantity > 0)
        kept == GpuSlices - OpsSlices(
                   [k \in 1..Len(ProfileOrder) |->
                      [MigProfile |-> ProfileOrder[k],
                       Quantity |-> CountOf(state, ProfileOrder[k])]])
                + OpsSlices(PlanDeletes(state, spec))
    IN DropUntilFit(wanted, kept)

\* plan.NewMigConfigPlan
NewMigConfigPlan(state, spec) ==
    [DeleteOperations |-> PlanDeletes(state, spec),
     CreateOperations |-> PlanCreates(state, spec)]

\* planner, warnings: a profile with more used devices than the spec wants
\* (they are not deleted), and a create left out for lack of capacity
SurplusUsedWarnings(state, spec) ==
    {[kind |-> "surplus used", MigProfile |-> pr] :
        pr \in {x \in Profiles :
                  CountOfStatus(state, x, StatusUsed) > Desired(spec, x)}}

DroppedCreateWarnings(state, spec) ==
    {[kind |-> "create dropped", MigProfile |-> pr] :
        pr \in {x \in Profiles :
                  /\ Desired(spec, x) > CountOf(state, x)
                  /\ \A k \in 1..Len(PlanCreates(state, spec)) :
                        PlanCreates(state, spec)[k].MigProfile # x}}

SurplusOnly(state, spec) == SurplusUsedWarnings(state, spec)

PlanWarnings(state, spec) ==
    SurplusUsedWarnings(state, spec) \cup DroppedCreateWarnings(state, spec)

\* getMemorySlices of a profile
getMemorySlices(profile) == IF profile = "1g.6gb" THEN 6 ELSE 12

(* ------------------------------- mig.GPU ------------------------------- *)
\* no error
Nil == "nil"

\* largest count of one profile in a geometry handed to ApplyGeometry
MaxCount == 4

\* the profiles of the A30
GpuProfiles == Profiles \cup {"4g.24gb"}

ComputeSlices(profile) ==
    IF profile = "4g.24gb" THEN 4 ELSE getGiSlices(profile)

\* mig.Geometry: profile -> count, 0 for a profile the map does not hold
Geometries == [GpuProfiles -> 0..MaxCount]

Geo(n1g, n2g, n4g) ==
    [pr \in GpuProfiles |->
        IF pr = "1g.6gb" THEN n1g ELSE IF pr = "2g.12gb" THEN n2g ELSE n4g]

EmptyGeometry == Geo(0, 0, 0)

\* the geometries the catalog allows on the A30
AllowedGeometries == {Geo(4, 0, 0), Geo(2, 1, 0), Geo(0, 2, 0), Geo(0, 0, 1)}

RECURSIVE GeometrySlices(_, _)
GeometrySlices(g, S) ==
    IF S = {} THEN 0
    ELSE LET pr == CHOOSE x \in S : TRUE
         IN g[pr] * ComputeSlices(pr) + GeometrySlices(g, S \ {pr})

\* the catalog's geometryIsLegal for the A30
AllowsGeometry(g) ==
    /\ GeometrySlices(g, GpuProfiles) <= GpuSlices
    /\ g \in AllowedGeometries

\* GPU.GetGeometry: free and used together
GetGeometry(g) == [pr \in GpuProfiles |-> g.used[pr] + g.free[pr]]

NewGPU(used, free) == [used |-> used, free |-> free]

ApplyGeometryKeepsOthers(g, target) ==
    IF \E pr \in GpuProfiles : g.used[pr] > target[pr]
    THEN [gpu |-> g, err |-> "WouldEvictUsed"]
    ELSE IF ~AllowsGeometry(target)
    THEN [gpu |-> g, err |-> "IllegalGeometry"]
    ELSE [gpu |-> NewGPU(g.used,
                         [pr \in GpuProfiles |->
                            IF target[pr] > 0 THEN target[pr] - g.used[pr]
                            ELSE g.free[pr]]),
          err |-> Nil]

ApplyGeometryEvicts(g, target) ==
    IF ~AllowsGeometry(target)
    THEN [gpu |-> g, err |-> "IllegalGeometry"]
    ELSE [gpu |-> NewGPU([pr \in GpuProfiles |->
                            IF g.used[pr] > target[pr] THEN target[pr]
                            ELSE g.used[pr]],
                         [pr \in GpuProfiles |->
                            IF g.used[pr] > target[pr] THEN 0
                            ELSE target[pr] - g.used[pr]]),
          err |-> IF \E pr \in GpuProfiles : g.used[pr] > target[pr]
                  THEN "WouldEvictUsed" ELSE Nil]

ApplyGeometryHalfway(g, target) ==
    IF \E pr \in GpuProfiles : g.used[pr] > target[pr]
    THEN [gpu |-> NewGPU(g.used, [pr \in GpuProfiles |-> 0]),
          err |-> "WouldEvictUsed"]
    ELSE IF ~AllowsGeometry(target)
    THEN [gpu |-> g, err |-> "IllegalGeometry"]
    ELSE [gpu |-> NewGPU(g.used,
                         [pr \in GpuProfiles |-> target[pr] - g.used[pr]]),
          err |-> Nil]

\* GPU.ApplyGeometry: the GPU after the call and the error returned
ApplyGeometry(g, target) ==
    IF \E pr \in GpuProfiles : g.used[pr] > target[pr]
    THEN [gpu |-> g, err |-> "WouldEvictUsed"]
    ELSE IF ~AllowsGeometry(target)
    THEN [gpu |-> g, err |-> "IllegalGeometry"]
    ELSE [gpu |-> NewGPU(g.used,
                         [pr \in GpuProfiles |-> target[pr] - g.used[pr]]),
          err |-> Nil]

\* the GPUs a test or a caller can build: nothing on it, or an allowed
\* geometry, split in any way between used and free
InitGpus ==
    {NewGPU(u, f) : u \in Geometries, f \in Geometries} \cap
    {g \in [used : Geometries, free : Geometries] :
        GetGeometry(g) \in AllowedGeometries \cup {EmptyGeometry}}

NoCall == [target |-> EmptyGeometry, before |-> NewGPU(EmptyGeometry, EmptyGeometry),
           err |-> "none"]

\* a GPU value with the used devices it was built with, the last
\* ApplyGeometry call made on it, and whether calls have failed and succeeded
GpuState(g) ==
    [now |-> g, used0 |-> g.used, last |-> NoCall,
     failed |-> FALSE, succeeded |-> FALSE]

NoGpu == GpuState(NewGPU(EmptyGeometry, EmptyGeometry))

NoPlanned == [done |-> FALSE]

\* no call of the NVML client
NoNvml == [pc |-> "off"]

(* ------------------------------- state --------------------------------- *)
VARIABLES
    mutex,       \* the shared sync.Locker: 0 when free, else its holder
    pc,          \* where each Reconcile invocation stands
    loc,         \* each invocation's locals
    calls,       \* each invocation's external calls so far
    hw,          \* the GPU's MIG devices, as the driver holds them
    nodeSpec,    \* the node's spec annotations
    gpu,         \* a mig.GPU value and the ApplyGeometry calls made on it
    planned,     \* the planner's output for the state and spec at hand
    nvml         \* one call of the NVML client and the library calls it made

vars == <<mutex, pc, loc, calls, hw, nodeSpec, gpu, planned, nvml>>

NoSpec == [pr \in {} |-> 0]

InitLoc ==
    [spec |-> NoSpec, plan |-> EmptyPlan,
     di |-> 0, cands |-> <<>>, cj |-> 0, nDeleted |-> 0,
     ci |-> 0, i |-> 0, nCreated |-> 0,
     atLeastOneDelete |-> FALSE, atLeastOneCreate |-> FALSE,
     err |-> Nil, ret |-> "none", ctxDone |-> FALSE, res |-> <<>>]

\* one external call: k its kind, op the operation's index in its list,
\* id the device, pr the profile, ok its success, flag a fact at call time
Ev(k, op, id, pr, ok, flag) ==
    [k |-> k, op |-> op, id |-> id, pr |-> pr, ok |-> ok, flag |-> flag]

\* what a list of the device-plugin pods on the node may return
PodStates == [deleting : BOOLEAN, phase : {"Pending", "Running"}]
PodLists == SeqsUpTo(PodStates, MaxPods)

\* the GPU at the start: no device at all, or a device in every slot: all
\* small and free, or the first one large, or the first one in use
Dev(profile, status) == [profile |-> profile, status |-> status]
InitHw ==
    {[d \in DevIds |-> NoDev],
     [d \in DevIds |-> Dev("1g.6gb", StatusFree)],
     [d \in DevIds |-> Dev(IF d = 1 THEN "2g.12gb" ELSE "1g.6gb", StatusFree)],
     [d \in DevIds |-> Dev("1g.6gb", IF d = 1 THEN StatusUsed ELSE StatusFree)]}

Init ==
    /\ mutex = 0
    /\ pc = [p \in Procs |-> "idle"]
    /\ loc = [p \in Procs |-> InitLoc]
    /\ calls = [p \in Procs |-> <<>>]
    /\ hw \in {h \in InitHw : UsedSlices(h) <= GpuSlices}
    /\ nodeSpec \in InitSpecs
    /\ gpu = NoGpu
    /\ planned = NoPlanned
    /\ nvml = NoNvml


(* --------------------------- Reconcile: entry -------------------------- *)
\* a step of invocation p to the point st.pc with locals st.l after the
\* external calls st.ev
Goto(p, st) ==
    /\ loc' = [loc EXCEPT ![p] = st.l]
    /\ calls' = [calls EXCEPT ![p] = @ \o st.ev]
    /\ pc' = [pc EXCEPT ![p] = st.pc]

\* a return statement of Reconcile with error e after the calls ev; what
\* is left is the deferred Unlock
Return(l, ev, e) == [l |-> [l EXCEPT !.ret = e], ev |-> ev, pc |-> "return"]

\* the framework delivers invocation p; invocations are numbered as delivered
Start(p) ==
    /\ pc[p] = "idle"
    /\ \A q \in Procs : q < p => pc[q] # "idle"
    /\ pc' = [pc EXCEPT ![p] = "lock"]
    /\ UNCHANGED <<mutex, loc, calls, hw, nodeSpec, gpu, planned,
                 nvml>>

LockNoWait(p) ==
    /\ pc[p] = "lock"
    /\ mutex' = p
    /\ pc' = [pc EXCEPT ![p] = "get"]
    /\ UNCHANGED <<loc, calls, hw, nodeSpec, gpu, planned,
                 nvml>>

\* a.mutex.Lock(): blocks while another invocation holds the mutex
Lock(p) ==
    /\ pc[p] = "lock"
    /\ mutex = 0
    /\ mutex' = p
    /\ pc' = [pc EXCEPT ![p] = "get"]
    /\ UNCHANGED <<loc, calls, hw, nodeSpec, gpu, planned,
                 nvml>>

NeverReported(spec, status) == FALSE

\* the check that the reported status already matches the spec
AlreadyReported(spec, status) == SpecMatchesStatus(spec, status)

GetNodeIgnoresError(p) ==
    /\ pc[p] = "get"
    /\ \E ok \in BOOLEAN, status \in StatusSet :
         LET ev == <<Ev("get", 0, 0, "", ok,
                        ok /\ SpecMatchesStatus(nodeSpec, status))>>
         IN IF ok /\ AlreadyReported(nodeSpec, status)
            THEN Goto(p, Return(loc[p], ev, Nil))
            ELSE Goto(p, [l |-> [loc[p] EXCEPT !.spec = nodeSpec],
                          ev |-> ev, pc |-> "plan"])
    /\ UNCHANGED <<mutex, hw, nodeSpec, gpu, planned,
                 nvml>>

\* a.Client.Get of the node, then the status check; the node read carries
\* the spec annotations and any status annotations
GetNode(p) ==
    /\ pc[p] = "get"
    /\ \E ok \in BOOLEAN, status \in StatusSet :
         LET ev == <<Ev("get", 0, 0, "", ok,
                        ok /\ SpecMatchesStatus(nodeSpec, status))>>
         IN IF ~ok THEN Goto(p, Return(loc[p], ev, "get error"))
            ELSE IF AlreadyReported(nodeSpec, status)
                 THEN Goto(p, Return(loc[p], ev, Nil))
            ELSE Goto(p, [l |-> [loc[p] EXCEPT !.spec = nodeSpec],
                          ev |-> ev, pc |-> "plan"])
    /\ UNCHANGED <<mutex, hw, nodeSpec, gpu, planned,
                 nvml>>

(* -------------------------------- apply -------------------------------- *)
NextPcCreatesFirst(l) ==
    IF l.ci <= Len(l.plan.CreateOperations) THEN "creOp"
    ELSE IF l.di <= Len(l.plan.DeleteOperations) THEN "delOp"
    ELSE "afterOps"

\* apply's control flow: the delete loop, then the create loop, then the rest
NextPc(l) ==
    IF l.di <= Len(l.plan.DeleteOperations) THEN "delOp"
    ELSE IF l.ci <= Len(l.plan.CreateOperations) THEN "creOp"
    ELSE "afterOps"

\* the two results an operation returns, kept in res for each operation
OpResult(k, op, atLeastOne, err) ==
    [k |-> k, op |-> op, atLeastOne |-> atLeastOne, err |-> err]

EndDeleteOpAllOrNone(l, op, n) ==
    [l EXCEPT !.atLeastOneDelete = n > 0,
              !.err = IF n = 0 THEN "partial delete" ELSE Nil,
              !.res = Append(@, OpResult("delOp", l.di, n > 0,
                         IF n = 0 THEN "partial delete" ELSE Nil)),
              !.di = @ + 1, !.cands = <<>>, !.cj = 0, !.nDeleted = 0]

\* the end of applyDeleteOp with n devices deleted, and apply's assignment
\* of its two results to atLeastOneDelete and err
EndDeleteOp(l, op, n) ==
    [l EXCEPT !.atLeastOneDelete = n > 0,
              !.err = IF n < op.Quantity THEN "partial delete" ELSE Nil,
              !.res = Append(@, OpResult("delOp", l.di, n > 0,
                         IF n < op.Quantity THEN "partial delete" ELSE Nil)),
              !.di = @ + 1, !.cands = <<>>, !.cj = 0, !.nDeleted = 0]

EndCreateOpAbort(l, op, n) ==
    [l EXCEPT !.atLeastOneCreate = n > 0,
              !.err = IF n < op.Quantity THEN "partial create" ELSE Nil,
              !.res = Append(@, OpResult("creOp", l.ci, n > 0,
                         IF n < op.Quantity THEN "partial create" ELSE Nil)),
              !.ci = IF n < op.Quantity
                     THEN Len(l.plan.CreateOperations) + 1 ELSE @ + 1,
              !.i = 0, !.nCreated = 0]

\* the end of applyCreateOp with n devices created, and apply's assignment
\* of its two results to atLeastOneCreate and err
EndCreateOp(l, op, n) ==
    [l EXCEPT !.atLeastOneCreate = n > 0,
              !.err = IF n < op.Quantity THEN "partial create" ELSE Nil,
              !.res = Append(@, OpResult("creOp", l.ci, n > 0,
                         IF n < op.Quantity THEN "partial create" ELSE Nil)),
              !.ci = @ + 1, !.i = 0, !.nCreated = 0]

AllResources(op) == op.Resources

\* applyDeleteOp's candidates: the operation's resources recorded as free
Candidates(op) == SelectSeq(op.Resources, LAMBDA r : r.status = StatusFree)

ApplyReturnWriteback(l, ev) ==
    Return(l, ev \o <<Ev("read", 0, 0, "", TRUE, FALSE),
                      Ev("writeStatus", 0, 0, "", TRUE, FALSE)>>, l.err)

\* a return of apply, and so of Reconcile, after the external calls ev: the
\* error returned is the one err holds
ApplyReturn(l, ev) == Return(l, ev, l.err)

\* apply from the locals l up to its next external call: an operation
\* without a call to make (no free candidate, quantity 0) ends at once;
\* after both loops the device plugin is restarted if the last delete
\* operation or the last create operation changed a device
RECURSIVE Advance(_, _)
Advance(l, ev) ==
    IF NextPc(l) = "delOp"
    THEN LET op == l.plan.DeleteOperations[l.di]
             cands == Candidates(op)
             e == Append(ev, Ev("delOp", l.di, 0, op.MigProfile, TRUE, FALSE))
         IN IF cands = <<>> THEN Advance(EndDeleteOp(l, op, 0), e)
            ELSE [l |-> [l EXCEPT !.cands = cands, !.cj = 1, !.nDeleted = 0],
                  ev |-> e, pc |-> "delCall"]
    ELSE IF NextPc(l) = "creOp"
    THEN LET op == l.plan.CreateOperations[l.ci]
             e == Append(ev, Ev("creOp", l.ci, 0, op.MigProfile, TRUE, FALSE))
         IN IF ~(0 < op.Quantity) THEN Advance(EndCreateOp(l, op, 0), e)
            ELSE [l |-> [l EXCEPT !.i = 0, !.nCreated = 0],
                  ev |-> e, pc |-> "creCall"]
    ELSE IF l.atLeastOneCreate \/ l.atLeastOneDelete
         THEN [l |-> l, ev |-> ev, pc |-> "restart"]
         ELSE ApplyReturn(l, ev)

(* ---------------------------- Reconcile: plan -------------------------- *)
\* a.plan and the IsEmpty check, the plan taken from the set plans; a plan
\* that is not empty is applied
DoPlan(p, plans) ==
    /\ pc[p] = "plan"
    /\ \E ok \in BOOLEAN :
         LET state == NewMigState(Resources(hw))
             m == Matches(state, loc[p].spec)
             ev == <<Ev("read", 0, 0, "", ok, ok /\ m)>>
         IN IF ~ok THEN Goto(p, Return(loc[p], ev, "read error"))
            ELSE IF m THEN Goto(p, Return(loc[p], ev, Nil))
            ELSE \E pl \in plans :
                   IF IsEmpty(pl) THEN Goto(p, Return(loc[p], ev, Nil))
                   ELSE Goto(p, Advance([loc[p] EXCEPT !.plan = pl,
                                                       !.di = 1, !.ci = 1], ev))
    /\ UNCHANGED <<mutex, hw, nodeSpec, gpu, planned,
                 nvml>>

\* Reconcile's plan step over every plan the planner may hand back
Plan(p) == DoPlan(p, AnyPlans(NewMigState(Resources(hw))))

\* Reconcile's plan step with the planner's plan
PlanByPlanner(p) ==
    DoPlan(p, {NewMigConfigPlan(NewMigState(Resources(hw)), loc[p].spec)})

(* --------------------------- apply: driver calls ----------------------- *)
\* one a.migClient.DeleteMigResource call and the loop step after it
DeleteCall(p) ==
    /\ pc[p] = "delCall"
    /\ LET l == loc[p]
           op == l.plan.DeleteOperations[l.di]
           r == l.cands[l.cj]
       IN \E ok \in BOOLEAN :
            /\ ok => (hw[r.id] # NoDev /\ hw[r.id].profile = r.profile)
            /\ hw' = IF ok THEN [hw EXCEPT ![r.id] = NoDev] ELSE hw
            /\ LET n == IF ok THEN (l.nDeleted + 1) % 256 ELSE l.nDeleted
                   ev == <<Ev("delete", l.di, r.id, r.profile, ok,
                              hw[r.id].status = StatusUsed)>>
               IN IF (ok /\ n >= op.Quantity) \/ l.cj = Len(l.cands)
                  THEN Goto(p, Advance(EndDeleteOp(l, op, n), ev))
                  ELSE Goto(p, [l |-> [l EXCEPT !.nDeleted = n, !.cj = @ + 1],
                                ev |-> ev, pc |-> "delCall"])
    /\ UNCHANGED <<mutex, nodeSpec, gpu, planned,
                 nvml>>

FreeSlots(h) == {d \in DevIds : h[d] = NoDev}

\* the driver can create a device while a slot and the slices are left
CanCreate(h, profile) ==
    /\ FreeSlots(h) # {}
    /\ UsedSlices(h) + getGiSlices(profile) <= GpuSlices

FirstFreeSlot(h) == CHOOSE d \in FreeSlots(h) : \A e \in FreeSlots(h) : d <= e

CreateLoopEndsOnFailure(i, op, ok) == ~(i < op.Quantity) \/ ~ok

\* the create loop's condition after a call: i counts attempts, not successes
CreateLoopEnds(i, op, ok) == ~(i < op.Quantity)

\* one a.migClient.CreateMigResource call and the loop step after it
CreateCall(p) ==
    /\ pc[p] = "creCall"
    /\ LET l == loc[p]
           op == l.plan.CreateOperations[l.ci]
       IN \E ok \in BOOLEAN :
            /\ ok => CanCreate(hw, op.MigProfile)
            /\ hw' = IF ok
                     THEN [hw EXCEPT ![FirstFreeSlot(hw)] =
                             Dev(op.MigProfile, StatusFree)]
                     ELSE hw
            /\ LET n == IF ok THEN (l.nCreated + 1) % 256 ELSE l.nCreated
                   i2 == (l.i + 1) % 256
                   ev == <<Ev("create", l.ci, IF ok THEN FirstFreeSlot(hw) ELSE 0,
                              op.MigProfile, ok, FALSE)>>
               IN IF CreateLoopEnds(i2, op, ok)
                  THEN Goto(p, Advance(EndCreateOp(l, op, n), ev))
                  ELSE Goto(p, [l |-> [l EXCEPT !.i = i2, !.nCreated = n],
                                ev |-> ev, pc |-> "creCall"])
    /\ UNCHANGED <<mutex, nodeSpec, gpu, planned,
                 nvml>>

(* ----------------------- apply: device-plugin restart ------------------ *)
\* restartNvidiaDevicePlugin up to the wait: list the pods, delete the one
SomePod(items) == Len(items) >= 1

\* the restart's precondition on the pods listed: exactly one
ExactlyOnePod(items) == Len(items) = 1

RestartNvidiaDevicePlugin(p) ==
    /\ pc[p] = "restart"
    /\ \E listOk \in BOOLEAN :
         LET start(n) == Ev("restart", 0, n, "", listOk, FALSE)
             fail == Ev("restartEnd", 0, 0, "", FALSE, FALSE)
             l == [loc[p] EXCEPT !.err = "restart error"]
         IN IF ~listOk THEN Goto(p, ApplyReturn(l, <<start(0), fail>>))
            ELSE \E items \in PodLists :
                   IF ~ExactlyOnePod(items)
                   THEN Goto(p, ApplyReturn(l, <<start(Len(items)), fail>>))
                   ELSE \E delOk \in BOOLEAN :
                          IF ~delOk
                          THEN Goto(p, ApplyReturn(l,
                                  <<start(Len(items)),
                                    Ev("podDelete", 0, 0, "", FALSE, FALSE),
                                    fail>>))
                          ELSE Goto(p,
                                  [l |-> [loc[p] EXCEPT !.ctxDone = FALSE],
                                   ev |-> <<start(Len(items)),
                                            Ev("podDelete", 0, 0, "", TRUE, FALSE)>>,
                                   pc |-> "wait"])
    /\ UNCHANGED <<mutex, hw, nodeSpec, gpu, planned,
                 nvml>>

PodListedOnce(items) == Len(items) = 1

\* checkPodRecreated: exactly one pod, not being deleted, Running
PodRecreated(items) ==
    /\ Len(items) = 1
    /\ ~items[1].deleting
    /\ items[1].phase = "Running"

NeverTimedOut(l) == FALSE

\* ctx.Err() != nil: the wait's context has timed out or been cancelled
TimedOut(l) == l.ctxDone

\* one round of waitNvidiaDevicePluginPodRestart's loop: the pod list, the
\* check of the pod, the check of the context, and otherwise the sleep.
\* The event of a successful end carries what the poll saw: the number of
\* pods, the pod's phase, whether it is being deleted.  On success apply's
\* err is the nil the restart returned
WaitPoll(p) ==
    /\ pc[p] = "wait"
    /\ \E listOk \in BOOLEAN :
         LET fail == Ev("restartEnd", 0, 0, "", FALSE, FALSE)
             bad == [loc[p] EXCEPT !.err = "restart error"]
             good == [loc[p] EXCEPT !.err = Nil]
         IN IF ~listOk THEN Goto(p, ApplyReturn(bad, <<fail>>))
            ELSE \E items \in PodLists :
                   IF PodRecreated(items)
                   THEN Goto(p, ApplyReturn(good,
                            <<Ev("restartEnd", 0, Len(items), items[1].phase,
                                 TRUE, items[1].deleting)>>))
                   ELSE IF TimedOut(loc[p])
                        THEN Goto(p, ApplyReturn(bad, <<fail>>))
                   ELSE Goto(p, [l |-> loc[p], ev |-> <<>>, pc |-> "sleep"])
    /\ UNCHANGED <<mutex, hw, nodeSpec, gpu, planned,
                 nvml>>

\* time.Sleep(5 * time.Second) is over: the next round
Sleep(p) ==
    /\ pc[p] = "sleep"
    /\ pc' = [pc EXCEPT ![p] = "wait"]
    /\ UNCHANGED <<mutex, loc, calls, hw, nodeSpec, gpu, planned,
                 nvml>>

\* the one-minute timeout of the wait's context fires, or the context the
\* framework passed is cancelled
CtxTimeout(p) ==
    /\ pc[p] \in {"wait", "sleep"}
    /\ ~loc[p].ctxDone
    /\ loc' = [loc EXCEPT ![p].ctxDone = TRUE]
    /\ UNCHANGED <<mutex, pc, calls, hw, nodeSpec, gpu, planned,
                 nvml>>

UnlockOnSuccess(p) ==
    /\ pc[p] = "return"
    /\ mutex' = IF loc[p].ret = Nil THEN 0 ELSE mutex
    /\ pc' = [pc EXCEPT ![p] = "done"]
    /\ loc' = [loc EXCEPT ![p] = InitLoc]
    /\ calls' = [calls EXCEPT ![p] = <<>>]
    /\ UNCHANGED <<hw, nodeSpec, gpu, planned,
                 nvml>>

\* the deferred a.mutex.Unlock() as Reconcile returns
Unlock(p) ==
    /\ pc[p] = "return"
    /\ mutex' = 0
    /\ pc' = [pc EXCEPT ![p] = "done"]
    /\ loc' = [loc EXCEPT ![p] = InitLoc]
    /\ calls' = [calls EXCEPT ![p] = <<>>]
    /\ UNCHANGED <<hw, nodeSpec, gpu, planned,
                 nvml>>

(* ------------------------------ environment ---------------------------- *)
\* a workload claims a free device.  The agent acts on a device's status
\* only in its delete calls, so the claims taken are those made while a
\* delete call is about to be issued; earlier ones are in the initial state
Deleting == \E p \in Procs : pc[p] = "delCall"

WorkloadClaim(d) ==
    /\ Deleting
    /\ hw[d] # NoDev
    /\ hw[d].status = StatusFree
    /\ hw' = [hw EXCEPT ![d].status = StatusUsed]
    /\ UNCHANGED <<mutex, pc, loc, calls, nodeSpec, gpu, planned,
                 nvml>>

(* ----------------------------- specifications -------------------------- *)
Step(p) ==
    \/ Start(p) \/ Lock(p) \/ GetNode(p)
    \/ DeleteCall(p) \/ CreateCall(p)
    \/ RestartNvidiaDevicePlugin(p) \/ WaitPoll(p) \/ Sleep(p)
    \/ CtxTimeout(p)
    \/ Unlock(p)

\* one Reconcile invocation, over every plan, with workloads claiming devices
Next ==
    \/ Step(1)
    \/ Plan(1)
    \/ \E d \in DevIds : WorkloadClaim(d)

Spec == Init /\ [][Next]_vars

\* all the invocations, each with the planner's plan
NextPlanned ==
    \/ \E p \in Procs : Step(p)
    \/ \E p \in Procs : PlanByPlanner(p)

SpecPlanned == Init /\ [][NextPlanned]_vars

\* the same with the scheduling the runtime gives: an invocation that can
\* take a step takes one (its external calls return, its sleep ends, the
\* mutex is handed to a waiter), and the timer of the wait's context fires
SpecLive ==
    /\ SpecPlanned
    /\ \A p \in Procs : WF_vars(Step(p) \/ PlanByPlanner(p))
    /\ \A p \in Procs : WF_vars(CtxTimeout(p))


(* ---------------------- mig.GPU under ApplyGeometry -------------------- *)
\* a call of GPU.ApplyGeometry with the geometry target
ApplyGeometryCall(target) ==
    /\ LET r == ApplyGeometry(gpu.now, target)
       IN gpu' = [gpu EXCEPT !.now = r.gpu,
                             !.last = [target |-> target, before |-> gpu.now,
                                       err |-> r.err],
                             !.failed = @ \/ r.err # Nil,
                             !.succeeded = @ \/ r.err = Nil]
    /\ UNCHANGED <<mutex, pc, loc, calls, hw, nodeSpec, planned, nvml>>

InitGpu ==
    /\ mutex = 0
    /\ pc = [p \in Procs |-> "idle"]
    /\ loc = [p \in Procs |-> InitLoc]
    /\ calls = [p \in Procs |-> <<>>]
    /\ hw = [d \in DevIds |-> NoDev]
    /\ nodeSpec = NoSpec
    /\ gpu \in {GpuState(g) : g \in InitGpus}
    /\ planned = NoPlanned
    /\ nvml = NoNvml

NextGpu == \E target \in Geometries : ApplyGeometryCall(target)

\* a GPU value under any sequence of ApplyGeometry calls
SpecGpu == InitGpu /\ [][NextGpu]_vars

(* ------------------------- the planner on its own --------------------- *)
\* every spec annotation set: a count for each profile it names
AllSpecs == UNION {[D -> 0..MaxQty] : D \in SUBSET Profiles}

\* every GPU the driver can report: each slot empty or holding a device,
\* within the GPU's slices
AllHw == {h \in [DevIds -> Devices \cup {NoDev}] : UsedSlices(h) <= GpuSlices}

\* a run of the planner on the state the driver reports and the node's spec
RunPlanner ==
    /\ LET state == NewMigState(Resources(hw))
       IN planned' = [done |-> TRUE,
                      plan |-> NewMigConfigPlan(state, nodeSpec),
                      warnings |-> PlanWarnings(state, nodeSpec)]
    /\ UNCHANGED <<mutex, pc, loc, calls, hw, nodeSpec, gpu, nvml>>

InitPlanner ==
    /\ mutex = 0
    /\ pc = [p \in Procs |-> "idle"]
    /\ loc = [p \in Procs |-> InitLoc]
    /\ calls = [p \in Procs |-> <<>>]
    /\ hw \in AllHw
    /\ nodeSpec \in AllSpecs
    /\ gpu = NoGpu
    /\ planned = NoPlanned
    /\ nvml = NoNvml

NextPlanner == RunPlanner

\* the planner run, any number of times, on any state and spec
SpecPlanner == InitPlanner /\ [][NextPlanner]_vars

(* ------------------------- reading the call log ------------------------ *)
\* Reconcile has reached a return statement: its result is loc[p].ret
Returned(p) == pc[p] = "return"

\* apply was called: the plan computed was not empty
Applied(p) == ~IsEmpty(loc[p].plan)

\* the places of the calls of kind k in invocation p's log
At(p, k) == {n \in 1..Len(calls[p]) : calls[p][n].k = k}

OpKinds == {"delOp", "delete", "creOp", "create"}

\* driver calls of kind k made for operation number op that succeeded
Successes(p, k, op) ==
    Cardinality({n \in At(p, k) : calls[p][n].op = op /\ calls[p][n].ok})

\* at least one driver create or delete call returned success
AnySuccess(p) ==
    \E n \in At(p, "delete") \cup At(p, "create") : calls[p][n].ok

\* some operation of the plan got fewer successes than its quantity
AnyPartial(p) ==
    \/ \E d \in 1..Len(loc[p].plan.DeleteOperations) :
          Successes(p, "delete", d) < loc[p].plan.DeleteOperations[d].Quantity
    \/ \E c \in 1..Len(loc[p].plan.CreateOperations) :
          Successes(p, "create", c) < loc[p].plan.CreateOperations[c].Quantity

RestartRan(p) == At(p, "restart") # {}

RestartFailed(p) == \E n \in At(p, "restartEnd") : ~calls[p][n].ok

(* --------------------------------- C1 ---------------------------------- *)
InCritical(p) ==
    pc[p] \in {"get", "plan", "delCall", "creCall", "restart", "wait", "sleep",
               "return"}

\* C1: at most one Reconcile invocation is between Lock and Unlock at any
\* time, and it is the one the mutex records, so the driver calls and the
\* restarts of two invocations never interleave
C1_MutualExclusion ==
    \A p \in Procs :
        InCritical(p) =>
            /\ mutex = p
            /\ \A q \in Procs \ {p} : ~InCritical(q)

\* an invocation waits for the mutex while another is applying its plan
C1_Witness ==
    \E p \in Procs, q \in Procs :
        /\ pc[p] \in {"delCall", "creCall", "restart", "wait"}
        /\ pc[q] = "lock"

(* --------------------------------- C2 ---------------------------------- *)
\* C2: in one reconciliation no delete operation starts or calls the driver
\* after a create operation has started, every delete operation has been
\* gone through when the first create operation starts, every operation has
\* been gone through when the restart starts, nothing is created or deleted
\* after that, and the restart starts at most once
C2_DeletesThenCreatesThenRestart ==
    \A p \in Procs :
        LET t == calls[p]
            dels == Len(loc[p].plan.DeleteOperations)
            cres == Len(loc[p].plan.CreateOperations)
        IN /\ \A m \in At(p, "creOp") \cup At(p, "create") :
                /\ \A n \in At(p, "delOp") \cup At(p, "delete") : n < m
                /\ Cardinality(At(p, "delOp")) = dels
           /\ \A m \in At(p, "restart") :
                /\ \A n \in 1..Len(t) : t[n].k \in OpKinds => n < m
                /\ Cardinality(At(p, "delOp")) = dels
                /\ Cardinality(At(p, "creOp")) = cres
           /\ Cardinality(At(p, "restart")) <= 1

\* a reconciliation that deleted a device, then created one, then restarted
C2_Witness ==
    \E p \in Procs :
        /\ Returned(p)
        /\ \E n \in At(p, "delete") : calls[p][n].ok
        /\ \E n \in At(p, "create") : calls[p][n].ok
        /\ RestartRan(p)

(* --------------------------------- C3 ---------------------------------- *)
\* C3: apply restarts the device plugin if and only if at least one driver
\* create or delete call of the plan returned success
C3_RestartIffSuccess ==
    \A p \in Procs :
        (Returned(p) /\ Applied(p)) => (RestartRan(p) <=> AnySuccess(p))

(* --------------------------------- C4 ---------------------------------- *)
\* C4: a reconciliation that runs a plan returns an error if and only if an
\* operation got fewer successes than its quantity or the restart failed
C4_ErrorIffPartialOrRestartFailed ==
    \A p \in Procs :
        (Returned(p) /\ Applied(p)) =>
            ((loc[p].ret # Nil) <=> (AnyPartial(p) \/ RestartFailed(p)))

(* --------------------------------- C5 ---------------------------------- *)
\* C5: no driver delete is issued for a device that is in use at the moment
\* of the call
C5_NeverDeletesUsed ==
    \A p \in Procs :
        \A n \in At(p, "delete") : ~calls[p][n].flag

(* --------------------------------- C6 ---------------------------------- *)
\* the operations gone through so far, as (kind, number) pairs in log order
Attempted(p) ==
    LET ops == SelectSeq(calls[p], LAMBDA e : e.k \in {"delOp", "creOp"})
    IN [n \in 1..Len(ops) |-> <<ops[n].k, ops[n].op>>]

\* the plan's operations in list order, deletes first
InPlanOrder(p) ==
    [n \in 1..Len(loc[p].plan.DeleteOperations) |-> <<"delOp", n>>]
    \o [n \in 1..Len(loc[p].plan.CreateOperations) |-> <<"creOp", n>>]

\* C6: the operations are gone through in list order, each at most once,
\* and when apply returns every one of them has been, whatever failed
C6_EveryOperationOnceInOrder ==
    \A p \in Procs :
        /\ Len(Attempted(p)) <= Len(InPlanOrder(p))
        /\ Attempted(p) = SubSeq(InPlanOrder(p), 1, Len(Attempted(p)))
        /\ (Returned(p) /\ Applied(p)) => Attempted(p) = InPlanOrder(p)

\* an operation that is not the plan's last failed and apply went on
C6_Witness ==
    \E p \in Procs :
        /\ Returned(p)
        /\ Len(InPlanOrder(p)) = 2
        /\ \/ /\ Len(loc[p].plan.DeleteOperations) >= 1
              /\ Successes(p, "delete", 1) < loc[p].plan.DeleteOperations[1].Quantity
           \/ /\ Len(loc[p].plan.CreateOperations) = 2
              /\ Successes(p, "create", 1) < loc[p].plan.CreateOperations[1].Quantity

(* --------------------------------- C7 ---------------------------------- *)
CreateCalls(p, c) ==
    Cardinality({n \in At(p, "create") : calls[p][n].op = c})

\* C7: a create operation of quantity q never gets more than q driver
\* calls, and has got exactly q once apply has moved past it, whichever of
\* them failed
C7_ExactlyQuantityCreateCalls ==
    \A p \in Procs :
        \A c \in 1..Len(loc[p].plan.CreateOperations) :
            LET q == loc[p].plan.CreateOperations[c].Quantity
            IN /\ CreateCalls(p, c) <= q
               /\ (Applied(p) /\ (c < loc[p].ci \/ Returned(p)))
                     => CreateCalls(p, c) = q

\* a create operation whose first unit failed and whose next unit was tried
C7_Witness ==
    \E p \in Procs :
        /\ Returned(p)
        /\ \E m \in At(p, "create"), n \in At(p, "create") :
              /\ m < n
              /\ calls[p][m].op = calls[p][n].op
              /\ ~calls[p][m].ok
              /\ calls[p][n].ok

UsedCount(h, pr) == CountOfStatus(Resources(h), pr, StatusUsed)

\* the spec can be reached on hardware h without removing a used device
Feasible(h, spec) ==
    LET want(pr) == IF pr \in DOMAIN spec THEN spec[pr] ELSE UsedCount(h, pr)
        ops == [k \in 1..Len(ProfileOrder) |->
                  [MigProfile |-> ProfileOrder[k],
                   Quantity |-> want(ProfileOrder[k])]]
        total == want("1g.6gb") + want("2g.12gb")
    IN /\ \A pr \in DOMAIN spec : UsedCount(h, pr) <= spec[pr]
       /\ OpsSlices(ops) <= GpuSlices
       /\ total <= MaxDev

\* C10: with a feasible spec and no workload interfering, a reconciliation
\* that applied a plan and leaves the devices short of the spec returns an
\* error, so that the framework runs another one
C10_PartialPlanIsRequeued ==
    \A p \in Procs :
        (/\ Returned(p)
         /\ Applied(p)
         /\ Feasible(hw, nodeSpec)
         /\ ~Matches(NewMigState(Resources(hw)), nodeSpec))
            => loc[p].ret # Nil

(* --------------------------------- C11 --------------------------------- *)
\* C11: the restart deletes the pod only when its list call returned
\* exactly one pod; with another number of pods no pod delete is made, the
\* wait is not entered, and the reconciliation returns the restart's error
C11_RestartNeedsExactlyOnePod ==
    \A p \in Procs :
        \A n \in At(p, "restart") :
            LET e == calls[p][n]
                deleted == \E m \in At(p, "podDelete") : m > n
            IN /\ deleted => (e.ok /\ e.id = 1)
               /\ (e.ok /\ e.id # 1) =>
                     /\ ~deleted
                     /\ Returned(p)
                     /\ Len(calls[p]) = n + 1
                     /\ calls[p][n + 1].k = "restartEnd"
                     /\ ~calls[p][n + 1].ok
                     /\ loc[p].ret # Nil

\* a restart whose list call returned several pods
C11_Witness ==
    \E p \in Procs :
        \E n \in At(p, "restart") : calls[p][n].ok /\ calls[p][n].id > 1

(* --------------------------------- C12 --------------------------------- *)
\* C12: the wait ends with success only in a poll that saw exactly one
\* pod, not being deleted, in phase Running
C12_WaitSucceedsOnlyOnReadyPod ==
    \A p \in Procs :
        \A n \in At(p, "restartEnd") :
            calls[p][n].ok =>
                /\ calls[p][n].id = 1
                /\ calls[p][n].pr = "Running"
                /\ ~calls[p][n].flag

\* a wait that ended with success after the pod delete
C12_Witness ==
    \E p \in Procs :
        /\ Returned(p)
        /\ \E m \in At(p, "podDelete"), n \in At(p, "restartEnd") :
              m < n /\ calls[p][m].ok /\ calls[p][n].ok /\ calls[p][n].id = 1

(* --------------------------------- C13 --------------------------------- *)
\* C13: once the wait's context is done, the next poll ends the wait: it
\* never goes back to sleep, and unless that poll saw the pod ready the
\* reconciliation returns an error
C13_WaitEndsAfterTimeout ==
    [][\A p \in Procs :
          (pc[p] = "wait" /\ loc[p].ctxDone /\ pc'[p] # "wait") =>
              /\ pc'[p] = "return"
              /\ \/ loc'[p].ret # Nil
                 \/ calls'[p][Len(calls'[p])].ok]_vars

\* a wait that timed out and made the reconciliation fail
C13_Witness ==
    \E p \in Procs :
        /\ Returned(p)
        /\ loc[p].ctxDone
        /\ RestartFailed(p)
        /\ loc[p].ret # Nil

(* --------------------------------- C14 --------------------------------- *)
\* C14: an invocation that is not between Lock and Unlock does not hold
\* the mutex, whatever the path it returned by, and an invocation waiting
\* for the mutex eventually acquires it
C14_MutexReleasedOnEveryPath ==
    /\ [](\A p \in Procs : ~InCritical(p) => mutex # p)
    /\ \A p \in Procs : (pc[p] = "lock") ~> (pc[p] = "get")

\* an invocation has returned and released the mutex, and another holds it
C14_Witness ==
    \E p \in Procs, q \in Procs :
        /\ pc[p] = "done"
        /\ q # p
        /\ mutex = q
        /\ InCritical(q)

(* --------------------------------- C15 --------------------------------- *)
\* C15: whatever ApplyGeometry calls have been made on a GPU, failing or
\* not, its used devices are those it was built with
C15_UsedNeverChanges == gpu.now.used = gpu.used0

\* a GPU with used devices on which a call failed and a call succeeded
\* that changed its free devices
C15_Witness ==
    /\ gpu.failed
    /\ gpu.succeeded
    /\ gpu.used0 # EmptyGeometry
    /\ gpu.last.err = Nil
    /\ gpu.now.free # gpu.last.before.free

(* --------------------------------- C16 --------------------------------- *)
\* C16: a call whose target the catalog does not allow, or holds fewer
\* devices of a profile than the GPU has in use, returns an error and
\* leaves the free and the used devices as they were
C16_AllOrNothing ==
    LET c == gpu.last
    IN (/\ c.err # "none"
        /\ \/ ~AllowsGeometry(c.target)
           \/ \E pr \in GpuProfiles : c.before.used[pr] > c.target[pr])
          => (c.err # Nil /\ gpu.now = c.before)

\* an allowed geometry refused on a GPU with free devices, because it
\* would remove used ones: the GPU is as before
C16_Witness ==
    /\ gpu.last.err = "WouldEvictUsed"
    /\ AllowsGeometry(gpu.last.target)
    /\ gpu.last.before = NewGPU(Geo(2, 0, 0), Geo(0, 1, 0))
    /\ gpu.now = gpu.last.before

(* --------------------------------- C17 --------------------------------- *)
\* C17: after a call that succeeded the GPU's geometry is the target and
\* its free devices are, per profile, the target less the used ones; free
\* devices of profiles the target does not hold are gone
C17_SuccessGivesTarget ==
    LET c == gpu.last
    IN c.err = Nil =>
          /\ GetGeometry(gpu.now) = c.target
          /\ \A pr \in GpuProfiles :
                gpu.now.free[pr] = c.target[pr] - c.before.used[pr]

\* the test "Applying new geometry changes only free devices"
C17_Witness ==
    /\ gpu.last.err = Nil
    /\ gpu.last.before = NewGPU(Geo(2, 0, 0), Geo(0, 1, 0))
    /\ gpu.last.target = Geo(4, 0, 0)
    /\ gpu.now = NewGPU(Geo(2, 0, 0), Geo(2, 0, 0))

(* --------------------------------- C18 --------------------------------- *)
FreeCount(h, pr) == CountOfStatus(Resources(h), pr, StatusFree)

\* the devices of profile pr the operations ops ask for
RECURSIVE QuantityOf(_, _)
QuantityOf(ops, pr) ==
    IF ops = <<>> THEN 0
    ELSE (IF Head(ops).MigProfile = pr THEN Head(ops).Quantity ELSE 0)
         + QuantityOf(Tail(ops), pr)

\* C18: the planner's delete operations for a profile ask for no more
\* devices than the profile has free; a profile with more used devices
\* than the spec wants gets a warning, and no delete beyond its free devices
C18_DeletesWithinFree ==
    planned.done =>
        \A pr \in Profiles :
            /\ QuantityOf(planned.plan.DeleteOperations, pr) <= FreeCount(hw, pr)
            /\ \A k \in 1..Len(planned.plan.DeleteOperations) :
                  planned.plan.DeleteOperations[k].Quantity
                      <= FreeCount(hw, planned.plan.DeleteOperations[k].MigProfile)
            /\ UsedCount(hw, pr) > Desired(nodeSpec, pr) =>
                  [kind |-> "surplus used", MigProfile |-> pr] \in planned.warnings

\* a profile with a used and a free device too many: the free one is
\* deleted, the used one is warned about
C18_Witness ==
    /\ planned.done
    /\ \E pr \in Profiles :
          /\ UsedCount(hw, pr) > Desired(nodeSpec, pr)
          /\ FreeCount(hw, pr) > 0
          /\ QuantityOf(planned.plan.DeleteOperations, pr) = FreeCount(hw, pr)

(* --------------------------------- C19 --------------------------------- *)
\* the devices of profile pr once the plan's deletes and creates are done
AfterPlan(pr) ==
    CountOf(Resources(hw), pr)
    - QuantityOf(planned.plan.DeleteOperations, pr)
    + QuantityOf(planned.plan.CreateOperations, pr)

\* C19: the state the planner's deletes and creates lead to matches the
\* spec, or the plan carries a warning
C19_PlanReachesSpecOrWarns ==
    planned.done =>
        \/ \A pr \in DOMAIN nodeSpec : AfterPlan(pr) = nodeSpec[pr]
        \/ planned.warnings # {}

\* a plan with deletes and creates and no warning
C19_Witness ==
    /\ planned.done
    /\ planned.warnings = {}
    /\ planned.plan.DeleteOperations # <<>>
    /\ planned.plan.CreateOperations # <<>>

(* --------------------------------- C20 --------------------------------- *)
\* profile a comes before profile b: more compute slices, else more memory
\* slices (the names of two profiles equal in both do not occur)
CostlierFirst(a, b) ==
    \/ getGiSlices(a) > getGiSlices(b)
    \/ getGiSlices(a) = getGiSlices(b) /\ getMemorySlices(a) > getMemorySlices(b)

InCostOrder(ops) ==
    \A i \in 1..Len(ops), j \in 1..Len(ops) :
        i < j => CostlierFirst(ops[i].MigProfile, ops[j].MigProfile)

C21_OperationResults ==
    \A p \in Procs :
        /\ \A n \in 1..Len(loc[p].res) :
              LET r == loc[p].res[n]
                  q == IF r.k = "delOp"
                       THEN loc[p].plan.DeleteOperations[r.op].Quantity
                       ELSE loc[p].plan.CreateOperations[r.op].Quantity
                  done == Successes(p, IF r.k = "delOp" THEN "delete"
                                       ELSE "create", r.op)
              IN /\ (r.err # Nil) <=> (done < q)
                 /\ r.atLeastOne <=> (done > 0)
        /\ (Returned(p) /\ Applied(p)) =>
              \A c \in 1..Len(loc[p].plan.CreateOperations) :
                  \E n \in 1..Len(loc[p].res) :
                      loc[p].res[n].k = "creOp" /\ loc[p].res[n].op = c

\* a delete operation that returned an error, and a create operation that
\* ran after it
C21_Witness ==
    \E p \in Procs :
        \E m \in 1..Len(loc[p].res), n \in 1..Len(loc[p].res) :
            /\ loc[p].res[m].k = "delOp"
            /\ loc[p].res[m].err # Nil
            /\ loc[p].res[n].k = "creOp"
            /\ m < n

(* --------------------------------- C23 --------------------------------- *)
\* C23: every device a delete operation passes to the driver is one of the
\* operation's resources whose recorded status is free, and no device is
\* passed twice within one operation
C23_OnlyFreeCandidatesOnce ==
    \A p \in Procs :
        \A n \in At(p, "delete") :
            LET e == calls[p][n]
                rs == loc[p].plan.DeleteOperations[e.op].Resources
            IN /\ \E x \in 1..Len(rs) :
                      rs[x].id = e.id /\ rs[x].status = StatusFree
               /\ \A m \in At(p, "delete") :
                      (m # n /\ calls[p][m].op = e.op) => calls[p][m].id # e.id

\* an operation that lists a used resource next to a free one: the delete
\* of the free one failed and the operation ended without another call
C23_Witness ==
    \E p \in Procs :
        \E n \in 1..Len(loc[p].res) :
            LET r == loc[p].res[n]
            IN /\ r.k = "delOp"
               /\ \E x \in 1..Len(loc[p].plan.DeleteOperations[r.op].Resources) :
                      loc[p].plan.DeleteOperations[r.op].Resources[x].status
                          = StatusUsed
               /\ \E m \in At(p, "delete") :
                      calls[p][m].op = r.op /\ ~calls[p][m].ok
               /\ Cardinality({m \in At(p, "delete") : calls[p][m].op = r.op})
                      = 1

(* --------------------------------- C24 --------------------------------- *)
\* the failed call of kind k of invocation p, if there is one
FailedCall(p, k) == \E n \in At(p, k) : ~calls[p][n].ok

\* the calls of invocation p that change the hardware or the device plugin
Touching(p) ==
    At(p, "delete") \union At(p, "create") \union At(p, "podDelete")

\* C24: when the read of the node or the read of the devices from the
\* driver fails, Reconcile returns that error at once, having made no
\* driver create or delete call and deleted no pod
C24_ReadFailureTouchesNothing ==
    \A p \in Procs :
        /\ FailedCall(p, "get") =>
              Returned(p) /\ loc[p].ret = "get error" /\ Touching(p) = {}
        /\ FailedCall(p, "read") =>
              Returned(p) /\ loc[p].ret = "read error" /\ Touching(p) = {}

\* the read of the devices failed on a GPU that has devices and whose
\* reported status differs from the spec
C24_Witness ==
    \E p \in Procs :
        /\ FailedCall(p, "read")
        /\ Returned(p)
        /\ Resources(hw) # <<>>

(* --------------------------------- C22 --------------------------------- *)
\* a delete operation of any quantity, zero included, over the state read
DeleteOpsFromZero(state) ==
    {[MigProfile |-> pr,
      Resources |-> SelectSeq(state, LAMBDA r : r.profile = pr),
      Quantity |-> q] : pr \in Profiles, q \in 0..MaxQty}

\* every plan of delete operations only, of any quantity
DeleteOnlyPlans(state) ==
    {[DeleteOperations |-> d, CreateOperations |-> <<>>] :
        d \in SeqsUpTo(DeleteOpsFromZero(state), MaxOps)}

\* Reconcile's plan step over the plans of delete operations
PlanOfDeletes(p) == DoPlan(p, DeleteOnlyPlans(NewMigState(Resources(hw))))

\* one Reconcile invocation applying delete operations of any quantity
NextDeletes ==
    \/ Start(1) \/ Lock(1) \/ GetNode(1)
    \/ PlanOfDeletes(1)
    \/ DeleteCall(1)
    \/ RestartNvidiaDevicePlugin(1) \/ WaitPoll(1) \/ Sleep(1)
    \/ CtxTimeout(1)
    \/ Unlock(1)

SpecDeletes == Init /\ [][NextDeletes]_vars

\* C22: for every delete operation, whatever its quantity and its free
\* candidates, the devices deleted for it are at most op.Quantity
C22_DeletesAtMostQuantity ==
    \A p \in Procs :
        \A d \in 1..Len(loc[p].plan.DeleteOperations) :
            Successes(p, "delete", d) <= loc[p].plan.DeleteOperations[d].Quantity

(* ----------------------------- NVML client ----------------------------- *)
\* the compute-instance profiles visitComputeInstances walks: the pairs
\* (j, k) of its two loops, numbered in the order of the walk
MaxCiProfiles == 2
\* the most compute instances a GPU instance has of one profile
MaxCis == 2
\* the most MIG devices VisitMigDevices walks
MaxMigDevs == 2

CiProfiles == 1..MaxCiProfiles
Uuids == {"MIG-a", "MIG-b"}

\* one call of the library: ci names the compute instance a callback is
\* called for, as <<profile, index>>, and is <<>> in every other call
NvmlCall(call, ok, ci) == [call |-> call, ok |-> ok, ci |-> ci]

\* the calls of DeleteMigDevice that fetch the GPU instance, in order
FetchCalls ==
    <<"DeviceGetHandleByUUID", "IsMigDeviceHandle", "GetGpuInstanceId",
      "GetDeviceHandleFromMigDeviceHandle", "GetGpuInstanceById">>

\* the start of a client call fn. cis: the compute instances the GPU
\* instance has of each profile; devs: the UUIDs of the MIG devices of the
\* node; nilOnSuccess: whether a SUCCESS value of the library's Return
\* type, returned where the function's result type is error, reads as nil
\* to the caller. The Return type belongs to the library, which fixes this
\* for a build.
NvmlStart(fn, cis, devs, nilOnSuccess) ==
    [pc |-> "init", fn |-> fn, trace |-> <<>>, ret |-> "none",
     cis |-> cis, devs |-> devs, nilOnSuccess |-> nilOnSuccess,
     f |-> 1, jk |-> 1, c |-> 1, numVisitedCi |-> 0,
     v |-> 1, found |-> FALSE, result |-> 0]

NvmlReturnNoShutdown(n, e) == [n EXCEPT !.ret = e, !.pc = "done"]

\* a return statement after the deferred shutdown was registered: what is
\* left is c.shutdown()
NvmlReturn(n, e) == [n EXCEPT !.ret = e, !.pc = "shutdown"]

\* the conversion of a library Return value to the error the caller sees
AsError(ok, nilOnSuccess) == IF ok /\ nilOnSuccess THEN Nil ELSE "nvml return"

\* c.init(), and the return without shutdown when it fails
NvmlInit ==
    /\ nvml.pc = "init"
    /\ \E ok \in BOOLEAN :
         LET n == [nvml EXCEPT !.trace = Append(@, NvmlCall("Init", ok, <<>>))]
         IN nvml' = IF ~ok THEN [n EXCEPT !.ret = "init error", !.pc = "done"]
                    ELSE [n EXCEPT !.pc = IF n.fn = "DeleteMigDevice"
                                          THEN "fetch" ELSE "visit"]
    /\ UNCHANGED <<mutex, pc, loc, calls, hw, nodeSpec, gpu, planned>>

\* DeleteMigDevice: one of the five calls that fetch the MIG device handle
\* and its GPU instance
NvmlFetch ==
    /\ nvml.pc = "fetch"
    /\ \E ok \in BOOLEAN, isMig \in BOOLEAN :
         LET call == FetchCalls[nvml.f]
             n == [nvml EXCEPT !.trace = Append(@, NvmlCall(call, ok, <<>>))]
         IN /\ (call # "IsMigDeviceHandle" \/ ~ok) => isMig
            /\ nvml' = IF ~ok THEN NvmlReturn(n, "fetch error")
                       ELSE IF ~isMig THEN NvmlReturn(n, "not a MIG device")
                       ELSE IF nvml.f < Len(FetchCalls)
                       THEN [n EXCEPT !.f = @ + 1]
                       ELSE [n EXCEPT !.pc = "profile", !.jk = 1]
    /\ UNCHANGED <<mutex, pc, loc, calls, hw, nodeSpec, gpu, planned>>

\* DeleteMigDevice after visitComputeInstances returned err
AfterVisit(n, err) ==
    IF err # Nil THEN NvmlReturn(n, "error destroying compute instances")
    ELSE IF n.numVisitedCi = 0 THEN NvmlReturn(n, "no compute instance")
    ELSE [n EXCEPT !.pc = "destroyGi"]

\* visitComputeInstances going on to the next profile, or returning nil
\* after the last one
NextProfile(n) ==
    IF n.jk < MaxCiProfiles THEN [n EXCEPT !.jk = @ + 1, !.pc = "profile"]
    ELSE AfterVisit(n, Nil)

\* visitComputeInstances: GetComputeInstanceProfileInfo(j, k); a profile
\* that is not supported has no compute instance
NvmlProfileInfo ==
    /\ nvml.pc = "profile"
    /\ \E ret \in {"SUCCESS", "ERROR_NOT_SUPPORTED", "ERROR_INVALID_ARGUMENT",
                   "ERROR_UNKNOWN"} :
         LET n == [nvml EXCEPT !.trace = Append(@,
                      NvmlCall("GetComputeInstanceProfileInfo",
                               ret = "SUCCESS", <<>>))]
         IN /\ ret \in {"ERROR_NOT_SUPPORTED", "ERROR_INVALID_ARGUMENT"} =>
                  nvml.cis[nvml.jk] = 0
            /\ nvml' = IF ret = "SUCCESS" THEN [n EXCEPT !.pc = "getCis"]
                       ELSE IF ret = "ERROR_UNKNOWN"
                       THEN AfterVisit(n, "profile info error")
                       ELSE NextProfile(n)
    /\ UNCHANGED <<mutex, pc, loc, calls, hw, nodeSpec, gpu, planned>>

\* visitComputeInstances: GetComputeInstances of the profile
NvmlGetComputeInstances ==
    /\ nvml.pc = "getCis"
    /\ \E ok \in BOOLEAN :
         LET n == [nvml EXCEPT !.trace = Append(@,
                      NvmlCall("GetComputeInstances", ok, <<>>))]
         IN nvml' = IF ~ok THEN AfterVisit(n, "compute instances error")
                    ELSE IF n.cis[n.jk] = 0 THEN NextProfile(n)
                    ELSE [n EXCEPT !.pc = "callback", !.c = 1]
    /\ UNCHANGED <<mutex, pc, loc, calls, hw, nodeSpec, gpu, planned>>

\* the callback DeleteMigDevice passes to visitComputeInstances, called
\* for compute instance c of profile jk: it counts the visit and calls
\* Destroy on the GPU instance gi, and its result ends the walk unless nil
NvmlCallback ==
    /\ nvml.pc = "callback"
    /\ \E ok \in BOOLEAN :
         LET n == [nvml EXCEPT
                      !.numVisitedCi = (@ + 1) % 256,
                      !.trace = Append(@, NvmlCall("gi.Destroy", ok,
                                                   <<nvml.jk, nvml.c>>))]
             err == AsError(ok, nvml.nilOnSuccess)
         IN nvml' = IF err # Nil THEN AfterVisit(n, err)
                    ELSE IF n.c < n.cis[n.jk] THEN [n EXCEPT !.c = @ + 1]
                    ELSE NextProfile(n)
    /\ UNCHANGED <<mutex, pc, loc, calls, hw, nodeSpec, gpu, planned>>

\* DeleteMigDevice: return gi.Destroy()
NvmlDestroyGi ==
    /\ nvml.pc = "destroyGi"
    /\ \E ok \in BOOLEAN :
         LET n == [nvml EXCEPT !.trace = Append(@,
                      NvmlCall("gi.Destroy", ok, <<>>))]
         IN nvml' = NvmlReturn(n, AsError(ok, nvml.nilOnSuccess))
    /\ UNCHANGED <<mutex, pc, loc, calls, hw, nodeSpec, gpu, planned>>

\* GetGpuIndex after VisitMigDevices returned nil
AfterMigDevices(n) ==
    IF ~n.found THEN NvmlReturn(n, "not found") ELSE NvmlReturn(n, Nil)

\* GetGpuIndex: VisitMigDevices starts its walk, which may fail in the
\* library before any callback
NvmlVisitMigDevices ==
    /\ nvml.pc = "visit"
    /\ \E ok \in BOOLEAN :
         LET n == [nvml EXCEPT !.trace = Append(@,
                      NvmlCall("VisitMigDevices", ok, <<>>))]
         IN nvml' = IF ~ok THEN NvmlReturn(n, "visit error")
                    ELSE IF n.devs = <<>> THEN AfterMigDevices(n)
                    ELSE [n EXCEPT !.pc = "migDevice", !.v = 1]
    /\ UNCHANGED <<mutex, pc, loc, calls, hw, nodeSpec, gpu, planned>>

\* GetGpuIndex's callback for MIG device v: nothing once found, else
\* GetUUID and the comparison with the device asked for
NvmlMigDevice ==
    /\ nvml.pc = "migDevice"
    /\ \E ok \in BOOLEAN :
         LET called == ~nvml.found
             n == IF called
                  THEN [nvml EXCEPT !.trace = Append(@,
                           NvmlCall("GetUUID", ok, <<>>))]
                  ELSE nvml
             m == IF called /\ ok /\ n.devs[n.v] = "MIG-a"
                  THEN [n EXCEPT !.found = TRUE, !.result = n.v]
                  ELSE n
         IN /\ ~called => ok
            /\ nvml' = IF called /\ ~ok THEN NvmlReturn(n, "uuid error")
                       ELSE IF m.v < Len(m.devs) THEN [m EXCEPT !.v = @ + 1]
                       ELSE AfterMigDevices(m)
    /\ UNCHANGED <<mutex, pc, loc, calls, hw, nodeSpec, gpu, planned>>

\* the deferred c.shutdown(): its failure is logged only
NvmlShutdown ==
    /\ nvml.pc = "shutdown"
    /\ \E ok \in BOOLEAN :
         nvml' = [nvml EXCEPT !.trace = Append(@, NvmlCall("Shutdown", ok, <<>>)),
                              !.pc = "done"]
    /\ UNCHANGED <<mutex, pc, loc, calls, hw, nodeSpec, gpu, planned>>

\* one call of DeleteMigDevice on a GPU instance with any compute
\* instances, or of GetGpuIndex for MIG-a on a node with any MIG devices
InitNvml ==
    /\ mutex = 0
    /\ pc = [p \in Procs |-> "idle"]
    /\ loc = [p \in Procs |-> InitLoc]
    /\ calls = [p \in Procs |-> <<>>]
    /\ hw = [d \in DevIds |-> NoDev]
    /\ nodeSpec = NoSpec
    /\ gpu = NoGpu
    /\ planned = NoPlanned
    /\ nvml \in {NvmlStart("DeleteMigDevice", cis, <<>>, b) :
                    cis \in [CiProfiles -> 0..MaxCis], b \in BOOLEAN}
                \union {NvmlStart("GetGpuIndex", [j \in CiProfiles |-> 0],
                                  devs, TRUE) :
                           devs \in SeqsUpTo(Uuids, MaxMigDevs)}

NextNvml ==
    \/ NvmlInit
    \/ NvmlFetch
    \/ NvmlProfileInfo
    \/ NvmlGetComputeInstances
    \/ NvmlCallback
    \/ NvmlDestroyGi
    \/ NvmlVisitMigDevices
    \/ NvmlMigDevice
    \/ NvmlShutdown

SpecNvml == InitNvml /\ [][NextNvml]_vars

\* the positions in the trace of the calls named call
NvmlAt(call) == {n \in 1..Len(nvml.trace) : nvml.trace[n].call = call}

\* the compute instances of the GPU instance, as <<profile, index>>
ComputeInstances ==
    UNION {{<<j, c>> : c \in 1..nvml.cis[j]} : j \in CiProfiles}

(* --------------------------------- C25 --------------------------------- *)
\* C25: DeleteMigDevice destroys every compute instance of the GPU instance
\* before it calls Destroy on the GPU instance, calls that Destroy at most
\* once and exactly once when it returns nil, and on a GPU instance without
\* compute instances returns an error without calling it
C25_ComputeInstancesThenGpuInstance ==
    nvml.pc # "off" /\ nvml.fn = "DeleteMigDevice" =>
        /\ \A n \in NvmlAt("gi.Destroy") :
              \A ci \in ComputeInstances :
                  \E m \in NvmlAt("ci.Destroy") :
                      m < n /\ nvml.trace[m].ci = ci /\ nvml.trace[m].ok
        /\ Cardinality(NvmlAt("gi.Destroy")) <= 1
        /\ (nvml.pc = "done" /\ nvml.ret = Nil) =>
              \E n \in NvmlAt("gi.Destroy") : nvml.trace[n].ok
        /\ ComputeInstances = {} =>
              /\ NvmlAt("gi.Destroy") = {}
              /\ nvml.pc = "done" => nvml.ret # Nil

(* --------------------------------- C26 --------------------------------- *)
\* C26: a client call makes no library call before a successful Init,
\* makes exactly one Shutdown, as its last call, on every return after a
\* successful Init, and makes no other call at all after a failed Init
C26_InitShutdownBracket ==
    nvml.pc # "off" =>
        /\ nvml.trace # <<>> => nvml.trace[1].call = "Init"
        /\ NvmlAt("Init") \subseteq {1}
        /\ (nvml.trace # <<>> /\ ~nvml.trace[1].ok) =>
              Len(nvml.trace) = 1 /\ nvml.pc = "done"
        /\ NvmlAt("Shutdown") \subseteq {Len(nvml.trace)}
        /\ NvmlAt("Shutdown") # {} => nvml.pc = "done"
        /\ (nvml.pc = "done" /\ nvml.trace[1].ok) =>
              NvmlAt("Shutdown") = {Len(nvml.trace)}

\* a call that returned an error after a successful Init, with its
\* Shutdown made
C26_Witness ==
    /\ nvml.pc = "done"
    /\ nvml.ret \notin {Nil, "init error"}
    /\ nvml.trace[1].ok
    /\ nvml.trace[Len(nvml.trace)].call = "Shutdown"

====
